---------------------------- MODULE Spec2Model ----------------------------
(***************************************************************************)
(* pyker: cards, the 5-card hand classifier (ScoredHand) and the card      *)
(* collection (CardSet) with its cached best-hand search.                  *)
(*                                                                         *)
(* A card is a record [rank |-> 1..13, suit |-> 1..4]: rank is Rank.number *)
(* (ACE = 1 .. KING = 13), suit is Suit.index (SPADES = 1 .. DIAMONDS = 4).*)
(* A Python list is a sequence.  A call that raises is modelled by the     *)
(* name of the exception it raises ("" when it returns).                   *)
(***************************************************************************)
EXTENDS Integers, Sequences, FiniteSets, TLC

VARIABLES
    cards,              \* CardSet.cards (the list the attribute refers to)
    original_cardset,   \* CardSet._original_cardset (the constructor's list)
    cards_is_original,  \* self.cards is self._original_cardset (same list object)
    best_hand_updated,  \* CardSet._best_hand_updated
    Deck_best_hand_updated, \* the attribute best_hand_updated that Deck.best_hand sets
    best_hand_cache,    \* the entry 'best_hand' of the instance __dict__ (cached_property)
    ret,                \* the last call on the CardSet and what it returned/raised
    prev_read,          \* the value of the latest best_hand read before the last call
    calls,              \* number of calls made on the CardSet since construction
    ops,                \* the names of the operations called since construction
    constructed,        \* self.cards as the constructor left it
    a,                  \* ScoredHand a (or the card list it is about to be built from)
    b                   \* ScoredHand b (or the card list it is about to be built from)

vars == <<cards, original_cardset, cards_is_original, best_hand_updated,
          Deck_best_hand_updated, best_hand_cache, ret, prev_read, calls, ops,
          constructed, a, b>>

cardset_vars == <<cards, original_cardset, cards_is_original,
                  best_hand_updated, Deck_best_hand_updated, best_hand_cache,
                  ret, prev_read, calls, ops, constructed>>

hand_vars == <<a, b>>

-----------------------------------------------------------------------------
(* enums.py *)

ACE == 1
TWO == 2
KING == 13
NumRanks == 13
NumSuits == 4

Ranks == 1..NumRanks
Suits == 1..NumSuits

Card(r, s) == [rank |-> r, suit |-> s]

\* Rank.__eq__: equality of the numbers.
Rank_eq(x, y) == x = y

\* Rank.__gt__
Rank_gt(x, y) ==
    IF Rank_eq(y, ACE) THEN FALSE
    ELSE IF Rank_eq(x, ACE) THEN ~Rank_eq(y, ACE)
    ELSE x > y

\* Rank.__lt__
Rank_lt(x, y) ==
    IF Rank_eq(x, ACE) THEN FALSE
    ELSE IF Rank_eq(y, ACE) THEN ~Rank_eq(x, ACE)
    ELSE x < y

\* HandType of enums.py, the one scored_hand.py imports: name -> value.
HandType ==
    [HIGH_CARD |-> 1, PAIR |-> 2, TWO_PAIR |-> 3, THREE_OF_A_KIND |-> 4,
     STRAIGHT |-> 5, FLUSH |-> 6, FULL_HOUSE |-> 7, FOUR_OF_A_KIND |-> 8,
     STRAIGHT_FLUSH |-> 9, ROYAL_FLUSH |-> 10]

\* HandType of the package's __init__.py.
PkgHandType ==
    [HIGH_CARD |-> 1, PAIR |-> 2, TWO_PAIR |-> 3, THREE_OF_A_KIND |-> 4,
     STRAIGHT |-> 5, FLUSH |-> 6, FULL_HOUSE |-> 7, STRAIGHT_FLUSH |-> 8,
     FOUR_OF_A_KIND |-> 9, ROYAL_FLUSH |-> 10]

HandTypeNames == DOMAIN HandType

\* hand_type.value under the implementation i.
HandTypeValue(i, name) ==
    IF i = "package" THEN PkgHandType[name] ELSE HandType[name]

-----------------------------------------------------------------------------
(* card.py (and the Card of __init__.py) *)

\* Card.__eq__
Card_eq(x, y) == Rank_eq(x.rank, y.rank) /\ x.suit = y.suit

\* Card.__lt__: True whenever exactly one side is an Ace.
Card_lt(x, y) ==
    IF Rank_eq(x.rank, ACE) # Rank_eq(y.rank, ACE) THEN TRUE
    ELSE x.rank < y.rank

\* Card.__gt__: True whenever exactly one side is an Ace.
Card_gt(x, y) ==
    IF Rank_eq(x.rank, ACE) # Rank_eq(y.rank, ACE) THEN TRUE
    ELSE x.rank > y.rank

Abs(n) == IF n < 0 THEN -n ELSE n

\* Card.__matmul__ of card.py: "True", "False" or the exception raised.
\* Rank defines __eq__ and no __hash__ (enums.py), so Python sets
\* Rank.__hash__ to None and the set display {self.rank, other.rank}
\* raises TypeError("unhashable type: 'Rank'") whenever it is evaluated.
Card_matmul(x, y) ==
    IF Card_eq(x, y) THEN "False"
    ELSE IF Abs(x.rank - y.rank) = 1 THEN "True"
    ELSE "TypeError"

\* Card.__matmul__ of __init__.py: the Ace is tested with ==, nothing raises.
PkgCard_matmul(x, y) ==
    IF Card_eq(x, y) THEN "False"
    ELSE IF Abs(x.rank - y.rank) = 1 THEN "True"
    ELSE IF Rank_eq(x.rank, ACE) \/ Rank_eq(y.rank, ACE)
         THEN IF Rank_eq(x.rank, TWO) \/ Rank_eq(y.rank, TWO) THEN "True"
              ELSE IF Rank_eq(x.rank, KING) \/ Rank_eq(y.rank, KING) THEN "True"
              ELSE "False"
    ELSE "False"

Matmul(i, x, y) ==
    IF i = "package" THEN PkgCard_matmul(x, y) ELSE Card_matmul(x, y)

\* Card.__rshift__: `self > other and self @ other` evaluates @ only when
\* > is true.
Card_rshift(i, x, y) ==
    IF Rank_eq(x.rank, ACE) /\ Rank_eq(y.rank, TWO) THEN "False"
    ELSE IF Rank_eq(x.rank, KING) /\ Rank_eq(y.rank, ACE) THEN "False"
    ELSE IF ~Card_gt(x, y) THEN "False"
    ELSE Matmul(i, x, y)

\* Card.__lshift__
Card_lshift(i, x, y) ==
    IF Rank_eq(x.rank, ACE) /\ Rank_eq(y.rank, KING) THEN "False"
    ELSE IF Rank_eq(x.rank, TWO) /\ Rank_eq(y.rank, ACE) THEN "False"
    ELSE IF ~Card_lt(x, y) THEN "False"
    ELSE Matmul(i, x, y)

-----------------------------------------------------------------------------
(* Python's sorted(): a stable sort by an integer key *)

\* A sequence given as a function of 1..n, as the tuple of its elements.
List(f) == f \o <<>>

\* sorted(s, key=..., reverse=rev) where keys[i] is the key of s[i]: the
\* sort is stable, also with reverse=True (equal keys keep their order).
Sorted(s, keys, rev) ==
    LET n == Len(s)
        before(j, i) ==
            \/ (IF rev THEN keys[j] > keys[i] ELSE keys[j] < keys[i])
            \/ (keys[j] = keys[i] /\ j < i)
        pos(i) == 1 + Cardinality({j \in 1..n : before(j, i)})
    IN  List([p \in 1..n |-> s[CHOOSE i \in 1..n : pos(i) = p]])

\* The key of the rank sorts: card.rank.number, with 14 for the Ace when
\* aces_high.
RankKey(c, aces_high) ==
    IF ~aces_high THEN c.rank
    ELSE IF ~Rank_eq(c.rank, ACE) THEN c.rank ELSE 14

\* _utils.sort_cards_by_rank, ScoredHand.sort, Deck.sort_by_rank
sort_cards_by_rank(cs, aces_high) ==
    Sorted(cs, List([i \in 1..Len(cs) |-> RankKey(cs[i], aces_high)]), TRUE)

\* CardSet.sort_by_suit
sort_by_suit(cs) ==
    Sorted(cs, List([i \in 1..Len(cs) |-> cs[i].suit]), FALSE)

\* CardSet.sort_by_rank with the default aces_high=True
sort_by_rank(cs) == sort_cards_by_rank(cs, TRUE)


-----------------------------------------------------------------------------
(* scored_hand.py (and the ScoredHand of __init__.py, which has the same   *)
(* score_hand, check_straight and check_flush, built on Deck)              *)

\* Python's None.
None == [state |-> "None"]

\* The arguments of a ScoredHand(...) call that has not run yet.
HandArgs(i, cs) ==
    [state |-> "args", impl |-> i, exc |-> "", hand_type |-> "None",
     kickers |-> <<>>, is_flush |-> FALSE, is_straight |-> FALSE, cards |-> cs]

\* A ScoredHand(...) call that raised e: no object exists.
HandRaised(i, cs, e) ==
    [state |-> "raised", impl |-> i, exc |-> e, hand_type |-> "None",
     kickers |-> <<>>, is_flush |-> FALSE, is_straight |-> FALSE, cards |-> cs]

\* ScoredHand.sort(aces_high); in the package, Deck.sort_by_rank(aces_high).
ScoredHand_sort(cs, aces_high) == sort_cards_by_rank(cs, aces_high)

\* A sort at the top of score_hand that takes the Ace as the lowest rank.
AceLowSort(i, cs) == ScoredHand_sort(cs, FALSE)

\* The sort at the top of score_hand: ScoredHand.sort() in scored_hand.py,
\* Deck.sort() (by suit, then by rank) in the package.
score_hand_sort(i, cs) ==
    IF i = "package" THEN sort_by_rank(sort_by_suit(cs))
    ELSE ScoredHand_sort(cs, TRUE)

\* ScoredHand.ranks: the ranks present, a list in Rank order; only
\* membership is asked of it.
ranks(cs) == {cs[k].rank : k \in 1..Len(cs)}

\* ScoredHand.check_flush
check_flush(cs) == \A k \in 1..Len(cs) : cs[k].suit = cs[1].suit

\* all(self.cards[i] >> self.cards[i + 1] for i in range(4)): all() stops at
\* the first False; an exception raised before that propagates.
all_rshift(i, cs) ==
    LET r(k) == Card_rshift(i, cs[k], cs[k + 1])
        stops == {k \in 1..4 : r(k) # "True"}
    IN  IF stops = {} THEN "True"
        ELSE LET first == CHOOSE k \in stops : \A m \in stops : k <= m
             IN  r(first)

\* ScoredHand.check_straight: [result |-> "True"/"False"/exception,
\* cards |-> self.cards as the method leaves it].
check_straight(i, cs) ==
    LET high == ScoredHand_sort(cs, TRUE)
        r1 == all_rshift(i, high)
        low == ScoredHand_sort(high, FALSE)
    IN  IF r1 # "False" THEN [result |-> r1, cards |-> high]
        ELSE [result |-> all_rshift(i, low), cards |-> low]

\* Counter(...).most_common(): the distinct ranks in order of first
\* occurrence, then sorted by count, descending and stable.
most_common(cs) ==
    LET n == Len(cs)
        firsts == {k \in 1..n : \A m \in 1..(k - 1) : cs[m].rank # cs[k].rank}
        nth(p) == CHOOSE k \in firsts : Cardinality({m \in firsts : m < k}) = p - 1
        items == List([p \in 1..Cardinality(firsts) |-> cs[nth(p)].rank])
        count(r) == Cardinality({k \in 1..n : cs[k].rank = r})
        counts == List([p \in 1..Len(items) |-> count(items[p])])
        names == Sorted(items, counts, TRUE)
    IN  List([p \in 1..Len(names) |-> <<names[p], count(names[p])>>])

\* ScoredHand.score_hand on the card list cs_in with the two flags set.
score_hand(i, cs_in, is_flush, is_straight) ==
    LET cs == score_hand_sort(i, cs_in)
        hand(t, k) ==
            [state |-> "built", impl |-> i, exc |-> "", hand_type |-> t,
             kickers |-> k, is_flush |-> is_flush, is_straight |-> is_straight,
             cards |-> cs]
        mc == most_common(cs)
        counts == List([p \in 1..Len(mc) |-> mc[p][2]])
        kick == List([p \in 1..Len(mc) |-> mc[p][1]])
    IN  IF is_flush /\ is_straight
        THEN IF ACE \in ranks(cs) /\ KING \in ranks(cs)
             THEN hand("ROYAL_FLUSH", <<>>)
             ELSE hand("STRAIGHT_FLUSH", <<cs[1].rank>>)
        ELSE IF is_flush THEN hand("FLUSH", List([k \in 1..Len(cs) |-> cs[k].rank]))
        ELSE IF is_straight THEN hand("STRAIGHT", <<cs[1].rank>>)
        ELSE IF counts[1] = 4 THEN hand("FOUR_OF_A_KIND", kick)
        ELSE IF counts[1] = 3
             THEN IF counts[2] = 2 THEN hand("FULL_HOUSE", kick)
                  ELSE hand("THREE_OF_A_KIND", kick)
        ELSE IF counts[1] = 2
             THEN IF counts[2] = 2 THEN hand("TWO_PAIR", kick)
                  ELSE hand("PAIR", kick)
        ELSE hand("HIGH_CARD", kick)

\* ScoredHand.__init__ of implementation i ("scored_hand" or "package") on
\* the card list cs.  The package's ScoredHand is a Deck: Deck.__init__
\* sorts the list (by suit, then by rank) before the length is checked.
ScoredHand(i, cs) ==
    LET cs0 == IF i = "package" THEN sort_by_rank(sort_by_suit(cs)) ELSE cs
    IN  IF Len(cs0) # 5 THEN HandRaised(i, cs, "ValueError")
        ELSE LET st == check_straight(i, cs0)
             IN  IF st.result \notin {"True", "False"}
                 THEN HandRaised(i, cs, st.result)
                 ELSE score_hand(i, st.cards, check_flush(cs0), st.result = "True")

\* ScoredHand.__eq__; the kickers are lists of Rank, compared with
\* Rank.__eq__.
ScoredHand_eq(x, y) ==
    IF x.hand_type = y.hand_type
    THEN /\ Len(x.kickers) = Len(y.kickers)
         /\ \A k \in 1..Len(x.kickers) : Rank_eq(x.kickers[k], y.kickers[k])
    ELSE FALSE

Min(m, n) == IF m <= n THEN m ELSE n

\* ScoredHand.__lt__
ScoredHand_lt(x, y) ==
    LET vx == HandTypeValue(x.impl, x.hand_type)
        vy == HandTypeValue(y.impl, y.hand_type)
        zip == 1..Min(Len(x.kickers), Len(y.kickers))
        decides == {k \in zip : Rank_lt(x.kickers[k], y.kickers[k])
                                \/ Rank_gt(x.kickers[k], y.kickers[k])}
    IN  IF vx < vy THEN TRUE
        ELSE IF vx > vy THEN FALSE
        ELSE IF decides = {} THEN FALSE
        ELSE LET k == CHOOSE d \in decides : \A m \in decides : d <= m
             IN  Rank_lt(x.kickers[k], y.kickers[k])

\* ScoredHand.__gt__, which @total_ordering derives from __lt__ and __eq__:
\* not (self < other) and self != other.
ScoredHand_gt(x, y) == ~ScoredHand_lt(x, y) /\ ~ScoredHand_eq(x, y)

-----------------------------------------------------------------------------
(* Bounds of the hand specifications *)

\* SpecHand: the hands are drawn from the suits 1..FullSuits with all 13
\* ranks, plus the ranks ACE..ShortRanks of every suit.
FullSuits == 2
ShortRanks == 1

\* SpecCmp: the two hands are drawn from the CmpRun consecutive spades that
\* start at CmpLow, plus the rank CmpQuad in every suit.
CmpLow == 5
CmpRun == 6
CmpQuad == 7

\* product(Rank, Suit), the card order of the default constructor.
DeckList == [k \in 1..(NumRanks * NumSuits) |->
                Card(((k - 1) \div NumSuits) + 1, ((k - 1) % NumSuits) + 1)]

InHandDeck(c) == c.suit <= FullSuits \/ c.rank <= ShortRanks

InCmpDeck(c) ==
    \/ (c.suit = 1 /\ c.rank >= CmpLow /\ c.rank < CmpLow + CmpRun)
    \/ c.rank = CmpQuad

HandDeck == SelectSeq(DeckList, InHandDeck)

CmpDeck == SelectSeq(DeckList, InCmpDeck)

\* The CardSet variables while only hands are built.
NoCardSet ==
    /\ cards = <<>>
    /\ original_cardset = <<>>
    /\ cards_is_original = FALSE
    /\ best_hand_updated = FALSE
    /\ Deck_best_hand_updated = FALSE
    /\ best_hand_cache = None
    /\ ret = None
    /\ prev_read = None
    /\ calls = 0
    /\ ops = {}
    /\ constructed = <<>>

\* One 5-card list, about to be passed to scored_hand.ScoredHand (a) and to
\* the package's ScoredHand (b).
InitHand ==
    /\ NoCardSet
    /\ \E i1 \in 1..Len(HandDeck) : \E i2 \in (i1 + 1)..Len(HandDeck) :
       \E i3 \in (i2 + 1)..Len(HandDeck) : \E i4 \in (i3 + 1)..Len(HandDeck) :
       \E i5 \in (i4 + 1)..Len(HandDeck) :
          LET cs == <<HandDeck[i1], HandDeck[i2], HandDeck[i3],
                      HandDeck[i4], HandDeck[i5]>>
          IN  /\ a = HandArgs("scored_hand", cs)
              /\ b = HandArgs("package", cs)

\* Two 5-card lists, both about to be passed to the ScoredHand of one
\* implementation.
InitCmp ==
    /\ NoCardSet
    /\ \E i \in {"scored_hand", "package"} :
       \E i1 \in 1..Len(CmpDeck) : \E i2 \in (i1 + 1)..Len(CmpDeck) :
       \E i3 \in (i2 + 1)..Len(CmpDeck) : \E i4 \in (i3 + 1)..Len(CmpDeck) :
       \E i5 \in (i4 + 1)..Len(CmpDeck) :
       \E j1 \in 1..Len(CmpDeck) : \E j2 \in (j1 + 1)..Len(CmpDeck) :
       \E j3 \in (j2 + 1)..Len(CmpDeck) : \E j4 \in (j3 + 1)..Len(CmpDeck) :
       \E j5 \in (j4 + 1)..Len(CmpDeck) :
          /\ a = HandArgs(i, <<CmpDeck[i1], CmpDeck[i2], CmpDeck[i3],
                               CmpDeck[i4], CmpDeck[i5]>>)
          /\ b = HandArgs(i, <<CmpDeck[j1], CmpDeck[j2], CmpDeck[j3],
                               CmpDeck[j4], CmpDeck[j5]>>)

\* The two constructor calls run.
ScoreHands ==
    /\ a.state = "args"
    /\ a' = ScoredHand(a.impl, a.cards)
    /\ b' = ScoredHand(b.impl, b.cards)
    /\ UNCHANGED cardset_vars

NextHand == ScoreHands

SpecHand == InitHand /\ [][NextHand]_vars

SpecCmp == InitCmp /\ [][NextHand]_vars

\* The cards of the hands that are passed in every order: the first
\* PermSize cards of PermList.
PermSize == 9

PermList ==
    <<Card(ACE, 1), Card(ACE, 2), Card(KING, 1), Card(KING, 2), Card(12, 1),
      Card(ACE, 3), Card(ACE, 4), Card(9, 1), Card(7, 2), Card(9, 2),
      Card(12, 2)>>

PermDeck == SubSeq(PermList, 1, PermSize)

\* Two lists of the same 5 cards, b in any order, both about to be passed
\* to the ScoredHand of one implementation.
InitPerm ==
    /\ NoCardSet
    /\ \E i \in {"scored_hand", "package"} :
       \E i1 \in 1..Len(PermDeck) : \E i2 \in (i1 + 1)..Len(PermDeck) :
       \E i3 \in (i2 + 1)..Len(PermDeck) : \E i4 \in (i3 + 1)..Len(PermDeck) :
       \E i5 \in (i4 + 1)..Len(PermDeck) :
       \E perm \in Permutations(1..5) :
          LET cs == <<PermDeck[i1], PermDeck[i2], PermDeck[i3],
                      PermDeck[i4], PermDeck[i5]>>
          IN  /\ a = HandArgs(i, cs)
              /\ b = HandArgs(i, List([k \in 1..5 |-> cs[perm[k]]]))

SpecPerm == InitPerm /\ [][NextHand]_vars

-----------------------------------------------------------------------------
(* card_set.py *)

\* Bounds of the CardSet specification: the constructor's list is a prefix
\* of the first PoolSize cards of PoolList, or HoleAndBoard, or Board; the lists passed
\* to add_cards are drawn from these PoolSize cards and hold at most MaxAdd
\* cards; shuffle is called on at most MaxShuffle cards; at most MaxCalls
\* calls follow the construction (see CallLimit).
PoolSize == 6
MaxAdd == 1
MaxShuffle == 2
MaxCalls == 3

PoolList ==
    <<Card(5, 1), Card(9, 2), Card(8, 1), Card(9, 1), Card(7, 1), Card(6, 1),
      Card(3, 1), Card(13, 1), Card(1, 1), Card(7, 2)>>

Pool == SubSeq(PoolList, 1, Min(PoolSize, Len(PoolList)))

\* The hole cards AS AH with the board KS QS JS TS 2D.
HoleAndBoard ==
    <<Card(ACE, 1), Card(ACE, 2), Card(KING, 1), Card(12, 1), Card(11, 1),
      Card(10, 1), Card(2, 4)>>

\* The board without its deuce: KS QS JS TS.
Board == SubSeq(HoleAndBoard, 3, 6)

\* The lists the constructor is called with.
ConstructorLists ==
    {SubSeq(Pool, 1, n) : n \in 0..Len(Pool)} \cup {HoleAndBoard, Board}

\* The lists of distinct cards the caller passes: the cards of Pool at the
\* places S, in the order of Pool or in the reverse order.
CallerList(S, reversed) ==
    LET n == Cardinality(S)
        nth(p) == CHOOSE k \in S : Cardinality({m \in S : m < k}) = p - 1
    IN  List([p \in 1..n |-> Pool[nth(IF reversed THEN n + 1 - p ELSE p)]])

Elems(cs) == {cs[k] : k \in 1..Len(cs)}

\* A sort with the suit as the primary key.
SuitMajorSort(cs) == sort_by_suit(sort_by_rank(cs))

\* CardSet.sort: sort_by_suit, then sort_by_rank; each rebinds self.cards to
\* a new sorted list.
CardSet_sort(cs) == sort_by_rank(sort_by_suit(cs))

\* itertools.combinations(cs, k): the k-element sub-lists, in lexicographic
\* order of their places (those with the head of cs first).
RECURSIVE combinations(_, _)
combinations(cs, k) ==
    IF k = 0 THEN << <<>> >>
    ELSE IF Len(cs) < k THEN <<>>
    ELSE CHOOSE r \in
            {List([p \in 1..Len(with) |-> <<Head(cs)>> \o with[p]])
                \o combinations(Tail(cs), k) :
             with \in {combinations(Tail(cs), k - 1)}} : TRUE

\* The first item, whatever the others are.
FirstHand(hands) == hands[1]

\* max(hands): the first item is the maximum so far; a later item replaces
\* it when item > maximum.
RECURSIVE max_from(_, _, _)
max_from(hands, k, best) ==
    IF k > Len(hands) THEN best
    ELSE CHOOSE r \in
            {max_from(hands, k + 1, next) :
             next \in {IF ScoredHand_gt(hands[k], best) THEN hands[k] ELSE best}} :
            TRUE

max(hands) == max_from(hands, 2, hands[1])

\* The body of the cached property best_hand on the card list cs:
\* [exc |-> the exception raised or "", updated |-> whether
\* _best_hand_updated was set, value |-> the hand returned].
compute_best_hand(cs) ==
    IF Len(cs) < 5
    THEN [exc |-> "NotImplementedError", updated |-> FALSE, value |-> None]
    ELSE LET result(hands) ==
                 LET raising == {p \in 1..Len(hands) : hands[p].state = "raised"}
                 IN  IF raising # {}
                     THEN [exc |-> hands[CHOOSE p \in raising :
                                            \A q \in raising : p <= q].exc,
                           updated |-> TRUE, value |-> None]
                     ELSE [exc |-> "", updated |-> TRUE, value |-> max(hands)]
         IN  CHOOSE r \in
                {result(List([p \in 1..Len(possible_hands) |->
                                ScoredHand("scored_hand", possible_hands[p])])) :
                 possible_hands \in {combinations(cs, 5)}} : TRUE

\* A guard that never deletes the cached value.
KeepBestHand(updated, cache) == [exc |-> "", cache |-> cache]

\* `if self._best_hand_updated: del self.best_hand`: deleting the attribute
\* raises AttributeError when the instance __dict__ holds no cached value.
\* [exc |-> exception or "", cache |-> the cache afterwards].
del_best_hand(updated, cache) ==
    IF ~updated THEN [exc |-> "", cache |-> cache]
    ELSE IF cache = None THEN [exc |-> "AttributeError", cache |-> cache]
    ELSE [exc |-> "", cache |-> None]

\* What a call leaves in ret.
Ret(op, arg, exc, value) ==
    [op |-> op, arg |-> arg, exc |-> exc, value |-> value,
     before |-> IF op \in {"deal", "add_cards"} THEN cards ELSE <<>>]

\* How many calls a history may hold once op is called: MaxCalls, and one
\* more for the histories of deal, best_hand and retrieve_cards calls alone.
CallLimit(op) ==
    IF ops \cup {op} \subseteq {"deal", "best_hand", "retrieve_cards"}
    THEN MaxCalls + 1
    ELSE MaxCalls

Called_op(op) ==
    /\ calls < CallLimit(op)
    /\ calls' = calls + 1
    /\ ops' = ops \cup {op}
    /\ prev_read' = IF ret.op = "best_hand" /\ ret.exc = "" THEN ret.value
                    ELSE prev_read
    /\ UNCHANGED constructed

\* CardSet(card_def) with a list: cards and _original_cardset are bound to
\* the caller's list, then sort() rebinds cards to a sorted copy.
Init ==
    /\ \E card_def \in ConstructorLists :
          /\ original_cardset = card_def
          /\ cards = CardSet_sort(card_def)
          /\ constructed = CardSet_sort(card_def)
          /\ ret = [op |-> "__init__", arg |-> card_def, exc |-> "",
                    value |-> None, before |-> <<>>]
    /\ cards_is_original = FALSE
    /\ best_hand_updated = FALSE
    /\ Deck_best_hand_updated = FALSE
    /\ best_hand_cache = None
    /\ prev_read = None
    /\ calls = 0
    /\ ops = {}
    /\ a = None
    /\ b = None

\* CardSet.retrieve_cards
retrieve_cards ==
    /\ Called_op("retrieve_cards")
    /\ cards' = original_cardset
    /\ cards_is_original' = TRUE
    /\ ret' = Ret("retrieve_cards", None, "", None)
    /\ UNCHANGED <<original_cardset, best_hand_updated, best_hand_cache,
                   Deck_best_hand_updated, a, b>>

\* CardSet.shuffle: random.shuffle permutes the list object in place.
shuffle ==
    /\ Len(cards) <= MaxShuffle
    /\ Called_op("shuffle")
    /\ \E perm \in [1..Len(cards) -> 1..Len(cards)] :
          /\ \A i, j \in 1..Len(cards) : i # j => perm[i] # perm[j]
          /\ cards' = List([k \in 1..Len(cards) |-> cards[perm[k]]])
    /\ original_cardset' = IF cards_is_original THEN cards' ELSE original_cardset
    /\ ret' = Ret("shuffle", None, "", None)
    /\ UNCHANGED <<cards_is_original, best_hand_updated, best_hand_cache,
                   Deck_best_hand_updated, a, b>>

\* CardSet.deal(n_cards): the slices are new lists; the cached value is
\* deleted after the cards were rebound; the return value is a new CardSet.
deal(n_cards) ==
    LET dealt_cards == SubSeq(cards, 1, n_cards)
        d == del_best_hand(best_hand_updated, best_hand_cache)
    IN  /\ Called_op("deal")
        /\ cards' = SubSeq(cards, n_cards + 1, Len(cards))
        /\ cards_is_original' = FALSE
        /\ best_hand_cache' = d.cache
        /\ ret' = IF d.exc # "" THEN Ret("deal", n_cards, d.exc, None)
                  ELSE Ret("deal", n_cards, "", CardSet_sort(dealt_cards))
        /\ UNCHANGED <<original_cardset, best_hand_updated,
                       Deck_best_hand_updated, a, b>>

\* CardSet.add_cards(cs): += extends the list object in place.
add_cards(cs) ==
    LET d == del_best_hand(best_hand_updated, best_hand_cache)
    IN  /\ Called_op("add_cards")
        /\ cards' = cards \o cs
        /\ original_cardset' = IF cards_is_original THEN cards' ELSE original_cardset
        /\ best_hand_cache' = d.cache
        /\ ret' = Ret("add_cards", cs, d.exc, None)
        /\ UNCHANGED <<cards_is_original, best_hand_updated,
                       Deck_best_hand_updated, a, b>>

\* CardSet.sort
sort ==
    /\ Called_op("sort")
    /\ cards' = CardSet_sort(cards)
    /\ cards_is_original' = FALSE
    /\ ret' = Ret("sort", None, "", None)
    /\ UNCHANGED <<original_cardset, best_hand_updated, best_hand_cache,
                   Deck_best_hand_updated, a, b>>

\* A read of the cached property CardSet.best_hand: the cached value if the
\* instance holds one, else the body runs and its return value is cached.
best_hand ==
    \E r \in {IF best_hand_cache # None
               THEN [exc |-> "", updated |-> best_hand_updated,
                     value |-> best_hand_cache]
               ELSE compute_best_hand(cards)} :
        /\ Called_op("best_hand")
        /\ best_hand_updated' = (best_hand_updated \/ r.updated)
        /\ best_hand_cache' = r.value
        /\ ret' = Ret("best_hand", None, r.exc, r.value)
        /\ UNCHANGED <<cards, original_cardset, cards_is_original,
                       Deck_best_hand_updated, a, b>>

\* The lists add_cards is called with: up to MaxAdd cards that the collection
\* does not hold and that follow one another among such cards of Pool, in
\* the order of Pool or in the reverse order; the collection never holds more
\* than PoolSize cards.
AddLists ==
    LET absent == {k \in 1..Len(Pool) : Pool[k] \notin Elems(cards)}
        run(S) == \A k, m \in S : \A j \in absent : (k < j /\ j < m) => j \in S
    IN  {CallerList(S, reversed) :
            S \in {T \in SUBSET absent : /\ Cardinality(T) \in 1..MaxAdd
                                         /\ Len(cards) + Cardinality(T) <= PoolSize
                                         /\ run(T)},
            reversed \in BOOLEAN}

Next ==
    \/ \E n \in 0..Len(cards) : deal(n)
    \/ \E cs \in AddLists : add_cards(cs)
    \/ best_hand
    \/ retrieve_cards
    \/ shuffle
    \/ sort

Spec == Init /\ [][Next]_vars

\* The state after CardSet(card_def) and a first call, shuffle(), that left
\* the cards in any order.
InitOrder ==
    /\ \E card_def \in ConstructorLists :
       \E perm \in Permutations(1..Len(card_def)) :
          /\ original_cardset = card_def
          /\ constructed = CardSet_sort(card_def)
          /\ cards = List([k \in 1..Len(card_def) |->
                             CardSet_sort(card_def)[perm[k]]])
    /\ ret = [op |-> "shuffle", arg |-> None, exc |-> "", value |-> None,
              before |-> <<>>]
    /\ cards_is_original = FALSE
    /\ best_hand_updated = FALSE
    /\ Deck_best_hand_updated = FALSE
    /\ best_hand_cache = None
    /\ prev_read = None
    /\ calls = 1
    /\ ops = {"shuffle"}
    /\ a = None
    /\ b = None

\* Reads of best_hand and add_cards calls on the shuffled collection.
NextOrder ==
    \/ best_hand
    \/ \E cs \in AddLists : add_cards(cs)

SpecOrder == InitOrder /\ [][NextOrder]_vars

-----------------------------------------------------------------------------
(* deck.py: the class Deck, on the same variables (cards is Deck.cards,   *)
(* best_hand_updated is Deck._best_hand_updated, and so on)               *)

\* Deck.sort_by_suit
Deck_sort_by_suit(cs) ==
    Sorted(cs, List([i \in 1..Len(cs) |-> cs[i].suit]), FALSE)

\* Deck.sort_by_rank with the default aces_high=True
Deck_sort_by_rank(cs) ==
    Sorted(cs, List([i \in 1..Len(cs) |-> RankKey(cs[i], TRUE)]), TRUE)

\* Deck.sort: sort_by_suit, then sort_by_rank
Deck_sort(cs) == Deck_sort_by_rank(Deck_sort_by_suit(cs))

\* The body of the cached property Deck.best_hand on the card list cs, after
\* it set self.best_hand_updated: max() over the hands of the 5-card
\* sub-lists, built one after the other; max() of no hand at all raises
\* ValueError.  [exc |-> the exception raised or "", updated |-> whether
\* best_hand_updated was set, value |-> the hand returned].
Deck_compute_best_hand(cs) ==
    LET result(hands) ==
            LET raising == {p \in 1..Len(hands) : hands[p].state = "raised"}
            IN  IF raising # {}
                THEN [exc |-> hands[CHOOSE p \in raising :
                                       \A q \in raising : p <= q].exc,
                      updated |-> TRUE, value |-> None]
                ELSE IF Len(hands) = 0
                THEN [exc |-> "ValueError", updated |-> TRUE, value |-> None]
                ELSE [exc |-> "", updated |-> TRUE, value |-> max(hands)]
    IN  CHOOSE r \in
           {result(List([p \in 1..Len(possible_hands) |->
                           ScoredHand("scored_hand", possible_hands[p])])) :
            possible_hands \in {combinations(cs, 5)}} : TRUE

\* Deck(card_def) with a list: cards and _original_cardset are bound to the
\* caller's list, _best_hand_updated is False, then sort() rebinds cards.
InitDeck ==
    /\ \E card_def \in ConstructorLists :
          /\ original_cardset = card_def
          /\ cards = Deck_sort(card_def)
          /\ constructed = Deck_sort(card_def)
          /\ ret = [op |-> "__init__", arg |-> card_def, exc |-> "",
                    value |-> None, before |-> <<>>]
    /\ cards_is_original = FALSE
    /\ best_hand_updated = FALSE
    /\ Deck_best_hand_updated = FALSE
    /\ best_hand_cache = None
    /\ prev_read = None
    /\ calls = 0
    /\ ops = {}
    /\ a = None
    /\ b = None

\* Deck.deal(n_cards): the slices are new lists; the cached value is deleted
\* if _best_hand_updated is set; the return value is a new Deck.
Deck_deal(n_cards) ==
    LET dealt_cards == SubSeq(cards, 1, n_cards)
        d == del_best_hand(best_hand_updated, best_hand_cache)
    IN  /\ Called_op("deal")
        /\ cards' = SubSeq(cards, n_cards + 1, Len(cards))
        /\ cards_is_original' = FALSE
        /\ best_hand_cache' = d.cache
        /\ ret' = IF d.exc # "" THEN Ret("deal", n_cards, d.exc, None)
                  ELSE Ret("deal", n_cards, "", Deck_sort(dealt_cards))
        /\ UNCHANGED <<original_cardset, best_hand_updated,
                       Deck_best_hand_updated, a, b>>

\* Deck.add_cards(cs): += extends the list object in place.
Deck_add_cards(cs) ==
    LET d == del_best_hand(best_hand_updated, best_hand_cache)
    IN  /\ Called_op("add_cards")
        /\ cards' = cards \o cs
        /\ original_cardset' = IF cards_is_original THEN cards' ELSE original_cardset
        /\ best_hand_cache' = d.cache
        /\ ret' = Ret("add_cards", cs, d.exc, None)
        /\ UNCHANGED <<cards_is_original, best_hand_updated,
                       Deck_best_hand_updated, a, b>>

\* A read of the cached property Deck.best_hand: the cached value if the
\* instance holds one, else the body runs: it sets self.best_hand_updated
\* (not _best_hand_updated), and its return value is cached.
Deck_best_hand ==
    \E r \in {IF best_hand_cache # None
               THEN [exc |-> "", updated |-> FALSE, value |-> best_hand_cache]
               ELSE Deck_compute_best_hand(cards)} :
        /\ Called_op("best_hand")
        /\ Deck_best_hand_updated' = (Deck_best_hand_updated \/ r.updated)
        /\ best_hand_cache' = r.value
        /\ ret' = Ret("best_hand", None, r.exc, r.value)
        /\ UNCHANGED <<cards, original_cardset, cards_is_original,
                       best_hand_updated, a, b>>

\* Reads of best_hand, deal and add_cards calls on a Deck.
NextDeck ==
    \/ \E n \in 0..Len(cards) : Deck_deal(n)
    \/ \E cs \in AddLists : Deck_add_cards(cs)
    \/ Deck_best_hand

SpecDeck == InitDeck /\ [][NextDeck]_vars

-----------------------------------------------------------------------------
(* What the claims say about a hand, in terms of its five ranks and suits *)

\* The weight of a rank with the Ace high.
AceHigh(r) == IF r = ACE THEN 14 ELSE r

RankSet(cs) == {cs[k].rank : k \in 1..Len(cs)}

SuitSet(cs) == {cs[k].suit : k \in 1..Len(cs)}

\* The rank at place p of the sequence A(low), 2, ..., K, A(high).
RankAt(p) == IF p = 14 THEN ACE ELSE p

\* The ten runs: the five ranks at the places lo..lo+4, lo in 1..10.
RunFrom(lo) == {RankAt(lo + k) : k \in 0..4}

IsRun(R) == \E lo \in 1..10 : R = RunFrom(lo)

\* The highest rank of the run R (FIVE for the wheel).
RunTop(R) == RankAt(4 + CHOOSE lo \in 1..10 : R = RunFrom(lo))

\* x is the immediate successor of y in A(low), 2, ..., K, A(high).
IsSuccessor(x, y) == x = y + 1 \/ (x = ACE /\ y = KING)

PyBool(p) == IF p THEN "True" ELSE "False"

\* The ranks of cs, highest first with the Ace high.
RanksAceHighDescending(cs) ==
    LET R == RankSet(cs)
        nth(p) == CHOOSE r \in R :
                    Cardinality({q \in R : AceHigh(q) > AceHigh(r)}) = p - 1
    IN  [p \in 1..Cardinality(R) |-> nth(p)]

\* The multiset of rank multiplicities of cs, as the set of <<rank, count>>.
Multiplicity(cs, r) == Cardinality({k \in 1..Len(cs) : cs[k].rank = r})

\* How many ranks occur exactly m times in cs.
RanksWithCount(cs, m) == Cardinality({r \in RankSet(cs) : Multiplicity(cs, r) = m})

\* The hand type the rank multiplicities decide.
TypeByCounts(cs) ==
    IF RanksWithCount(cs, 4) = 1 THEN "FOUR_OF_A_KIND"
    ELSE IF RanksWithCount(cs, 3) = 1 /\ RanksWithCount(cs, 2) = 1 THEN "FULL_HOUSE"
    ELSE IF RanksWithCount(cs, 3) = 1 THEN "THREE_OF_A_KIND"
    ELSE IF RanksWithCount(cs, 2) = 2 THEN "TWO_PAIR"
    ELSE IF RanksWithCount(cs, 2) = 1 THEN "PAIR"
    ELSE "HIGH_CARD"

\* The category strength the specification states, weakest first.
StatedStrength ==
    [HIGH_CARD |-> 1, PAIR |-> 2, TWO_PAIR |-> 3, THREE_OF_A_KIND |-> 4,
     STRAIGHT |-> 5, FLUSH |-> 6, FULL_HOUSE |-> 7, FOUR_OF_A_KIND |-> 8,
     STRAIGHT_FLUSH |-> 9, ROYAL_FLUSH |-> 10]

\* k1 is lexicographically smaller than k2 under the ace-high rank order.
KickersLess(k1, k2) ==
    \E p \in 1..Min(Len(k1), Len(k2)) :
        /\ \A q \in 1..(p - 1) : k1[q] = k2[q]
        /\ AceHigh(k1[p]) < AceHigh(k2[p])

Built(h) == h.state = "built"

Called(h) == h.state \in {"built", "raised"}

-----------------------------------------------------------------------------
(* C1 *)

\* The order of two built hands x and y is the stated total order.
StatedOrder(x, y) ==
    /\ ScoredHand_lt(x, y) <=>
          \/ HandTypeValue(x.impl, x.hand_type) < HandTypeValue(y.impl, y.hand_type)
          \/ (x.hand_type = y.hand_type /\ KickersLess(x.kickers, y.kickers))
    /\ ScoredHand_eq(x, y) <=> (x.hand_type = y.hand_type /\ x.kickers = y.kickers)
    /\ StatedStrength[x.hand_type] < StatedStrength[y.hand_type] => ScoredHand_lt(x, y)
    /\ Cardinality({r \in {"lt", "eq", "gt"} :
            \/ (r = "lt" /\ ScoredHand_lt(x, y))
            \/ (r = "eq" /\ ScoredHand_eq(x, y))
            \/ (r = "gt" /\ ScoredHand_gt(x, y))}) = 1

\* C1: any two ScoredHands a and b built from 5 distinct cards compare by
\* hand type value, then by kickers under the ace-high rank order; a == b iff
\* type and kickers are equal; the category strength is ROYAL_FLUSH >
\* STRAIGHT_FLUSH > FOUR_OF_A_KIND > FULL_HOUSE > FLUSH > STRAIGHT >
\* THREE_OF_A_KIND > TWO_PAIR > PAIR > HIGH_CARD and exactly one of a < b,
\* a == b, a > b holds; for the HandType of enums.py and for the HandType of
\* __init__.py.
C1_StatedTotalOrder == (Built(a) /\ Built(b)) => StatedOrder(a, b)

-----------------------------------------------------------------------------
(* C2 *)

\* The constructor call h returned, and is_straight says whether the ranks
\* are one of the ten runs; >> on any two of its cards is "immediate
\* successor".
StraightIffRun(h) ==
    /\ Built(h)
    /\ h.is_straight <=> IsRun(RankSet(h.cards))
    /\ \A k, m \in 1..Len(h.cards) :
          Card_rshift(h.impl, h.cards[k], h.cards[m])
             = PyBool(IsSuccessor(h.cards[k].rank, h.cards[m].rank))

\* C2: for every 5-card hand of distinct cards, is_straight is true exactly
\* when the five ranks form one of the ten runs A-2-3-4-5 .. T-J-Q-K-A;
\* equivalently Card x >> y holds iff x's rank is the immediate successor of
\* y's rank in A(low), 2, ..., K, A(high).
C2_StraightIffRun == Called(a) => StraightIffRun(a)

-----------------------------------------------------------------------------
(* C3 *)

\* A hand classified STRAIGHT or STRAIGHT_FLUSH has the top of its run as
\* its only kicker, and the wheel is classified so, with kicker FIVE.
StraightKicker(h) ==
    /\ (Built(h) /\ h.hand_type \in {"STRAIGHT", "STRAIGHT_FLUSH"})
          => h.kickers = <<RunTop(RankSet(h.cards))>>
    /\ (Called(h) /\ RankSet(h.cards) = RunFrom(1))
          => /\ Built(h)
             /\ h.hand_type \in {"STRAIGHT", "STRAIGHT_FLUSH"}
             /\ h.kickers = <<5>>

\* C3: for every 5-card hand classified STRAIGHT or STRAIGHT_FLUSH, kickers
\* is the one-element sequence holding the highest rank of the straight; for
\* the wheel A-2-3-4-5 the kicker is FIVE.
C3_StraightKicker == StraightKicker(a) /\ StraightKicker(b)

-----------------------------------------------------------------------------
(* C4 *)

\* The classification of single-suited hands, and only of them, as
\* ROYAL_FLUSH, STRAIGHT_FLUSH or FLUSH.
FlushFamily(h) ==
    LET R == RankSet(h.cards)
        one_suit == Cardinality(SuitSet(h.cards)) = 1
    IN  /\ Built(h)
        /\ (one_suit /\ IsRun(R) /\ ACE \in R /\ KING \in R)
              => (h.hand_type = "ROYAL_FLUSH" /\ h.kickers = <<>>)
        /\ (one_suit /\ IsRun(R) /\ ~(ACE \in R /\ KING \in R))
              => h.hand_type = "STRAIGHT_FLUSH"
        /\ (one_suit /\ ~IsRun(R))
              => (h.hand_type = "FLUSH"
                  /\ h.kickers = RanksAceHighDescending(h.cards))
        /\ ~one_suit
              => h.hand_type \notin {"ROYAL_FLUSH", "STRAIGHT_FLUSH", "FLUSH"}

\* C4: a single-suited 5-card hand is ROYAL_FLUSH with empty kickers if it is
\* a straight holding an Ace and a King, STRAIGHT_FLUSH if it is another
\* straight, FLUSH with its five ranks in ace-high descending order as
\* kickers otherwise; no other hand gets one of these three types.
C4_FlushFamily == Called(a) => FlushFamily(a)

-----------------------------------------------------------------------------
(* C5 *)

\* A hand that is neither a flush nor a straight gets the type its rank
\* multiplicities decide.
CountLadder(h) ==
    (Cardinality(SuitSet(h.cards)) > 1 /\ ~IsRun(RankSet(h.cards)))
        => (Built(h) /\ h.hand_type = TypeByCounts(h.cards))

\* C5: every 5-card hand that is neither a flush nor a straight ends with
\* the hand type its rank multiplicities decide ({4,1} FOUR_OF_A_KIND, {3,2}
\* FULL_HOUSE, {3,1,1} THREE_OF_A_KIND, {2,2,1} TWO_PAIR, {2,1,1,1} PAIR,
\* {1,1,1,1,1} HIGH_CARD): the ladder is exhaustive and nothing is raised.
C5_CountLadder == Called(a) => CountLadder(a)

-----------------------------------------------------------------------------
(* C6 *)

\* The hands of the 5-card sub-lists of cs.
HandsOf(cs) ==
    CHOOSE r \in
        {List([p \in 1..Len(possible_hands) |->
                 ScoredHand("scored_hand", possible_hands[p])]) :
         possible_hands \in {combinations(cs, 5)}} : TRUE

\* v is a hand of 5 cards of cs and no hand of 5 cards of cs is greater.
IsMaximalHand(v, cs) ==
    /\ Built(v)
    /\ Elems(v.cards) \subseteq Elems(cs)
    /\ Len(v.cards) = 5
    /\ \A hands \in {HandsOf(cs)} :
          \A p \in 1..Len(hands) :
              Built(hands[p]) /\ ~ScoredHand_gt(hands[p], v)

\* C6: a read of best_hand on a collection of 5 or more distinct cards
\* returns a ScoredHand of 5 of its cards that no ScoredHand of 5 of its cards
\* exceeds; on AS AH KS QS JS TS 2D it returns the ROYAL_FLUSH.
C6_BestHandIsMaximal ==
    (ret.op = "best_hand" /\ Len(cards) >= 5)
        => /\ ret.exc = ""
           /\ IsMaximalHand(ret.value, cards)
           /\ Elems(cards) = Elems(HoleAndBoard)
                 => ret.value.hand_type = "ROYAL_FLUSH"

-----------------------------------------------------------------------------
(* C7 *)

\* Only deal, add_cards and reads of best_hand were called so far.
OnlyDealAddRead == ops \subseteq {"deal", "add_cards", "best_hand"}

\* The last call was a read of best_hand that returned a value.
ReadReturned == ret.op = "best_hand" /\ ret.exc = ""

\* C7: after any sequence of deal and add_cards calls and best_hand reads, a
\* read of best_hand that returns a value returns the maximum over the
\* 5-card sub-lists of the cards the collection holds now, never a value
\* cached before a deal or an add_cards.
C7_ReadIsOfCurrentCards ==
    (OnlyDealAddRead /\ ReadReturned)
        => /\ ret.value = compute_best_hand(cards).value
           /\ IsMaximalHand(ret.value, cards)

\* A read returned a value other than the one an earlier read returned, a
\* deal or an add_cards having come between them.
C7_ReadAfterMutation ==
    /\ OnlyDealAddRead
    /\ ReadReturned
    /\ prev_read # None
    /\ prev_read # ret.value
    /\ ops \cap {"deal", "add_cards"} # {}

-----------------------------------------------------------------------------
(* C8 *)

\* C8: deal(n) on a collection in canonical order, 0 <= n <= size, returns a
\* new collection of exactly the first n cards and leaves the other cards in
\* the source in their order: nothing is lost or duplicated.
C8_DealRemovesFront ==
    (ret.op = "deal" /\ ret.before = CardSet_sort(ret.before))
        => /\ ret.exc = ""
           /\ ret.value = SubSeq(ret.before, 1, ret.arg)
           /\ cards = SubSeq(ret.before, ret.arg + 1, Len(ret.before))
           /\ ret.value \o cards = ret.before

-----------------------------------------------------------------------------
(* C9 *)

\* C9: retrieve_cards after any sequence of deal and add_cards calls leaves
\* the list the collection held right after its construction: the same cards
\* in the same order.
C9_RetrieveRestoresConstructed ==
    [][(retrieve_cards /\ ops \subseteq {"deal", "add_cards"})
          => cards' = constructed]_vars

-----------------------------------------------------------------------------
(* C10 *)

\* The last call was the constructor or sort().
JustSorted == ret.op \in {"__init__", "sort"}

\* cs is ordered by suit index ascending, then by ace-high rank descending.
SuitThenRank(cs) ==
    \A i, j \in 1..Len(cs) :
        i < j => \/ cs[i].suit < cs[j].suit
                 \/ (cs[i].suit = cs[j].suit
                     /\ AceHigh(cs[i].rank) >= AceHigh(cs[j].rank))

\* cs is ordered by ace-high rank descending, then by suit index ascending.
RankThenSuit(cs) ==
    \A i, j \in 1..Len(cs) :
        i < j => \/ AceHigh(cs[i].rank) > AceHigh(cs[j].rank)
                 \/ (cs[i].rank = cs[j].rank /\ cs[i].suit <= cs[j].suit)

\* C10 as stated: after sort(), and right after construction, the cards are
\* ordered by suit display index ascending first and by ace-high rank
\* descending second.
C10_SuitPrimary == JustSorted => SuitThenRank(cards)

\* C10 amended: after sort(), and right after construction, the cards are
\* ordered by ace-high rank descending first and by suit display index
\* ascending second.
C10_RankPrimary == JustSorted => RankThenSuit(cards)

\* sort() was called on cards that the two orders arrange differently.
C10_SortedMixedSuits ==
    /\ ret.op = "sort"
    /\ \E i, j \in 1..Len(cards) : i < j /\ cards[i].suit > cards[j].suit
    /\ \E i, j \in 1..Len(cards) : cards[i].rank # cards[j].rank

-----------------------------------------------------------------------------
(* C11 *)

\* A read of best_hand on fewer than 5 cards raises, changes no card and
\* caches nothing.
SmallReadFails ==
    (best_hand /\ Len(cards) < 5)
        => /\ ret'.exc # ""
           /\ ret'.value = None
           /\ best_hand_cache' = None
           /\ UNCHANGED <<cards, original_cardset>>

\* The collection was constructed with fewer than 5 cards, and only reads of
\* best_hand and add_cards calls followed, the last one a read on 5 or more
\* cards.
ReadAfterGrowth ==
    /\ Len(constructed) < 5
    /\ ops \subseteq {"best_hand", "add_cards"}
    /\ ret.op = "best_hand"
    /\ Len(cards) >= 5

\* C11: best_hand on fewer than 5 cards fails and returns no hand, leaves
\* the cards unchanged and caches nothing; once add_cards has brought the
\* collection to 5 or more cards, best_hand returns the best hand of those
\* cards.
C11_SmallReadThenGrowth ==
    /\ [][SmallReadFails]_vars
    /\ [](ReadAfterGrowth => (ret.exc = "" /\ IsMaximalHand(ret.value, cards)))

-----------------------------------------------------------------------------
(* C12 *)

\* What best_hand gives on a collection newly constructed from the cards
\* cs, which holds them in canonical order.
ReadOfSorted(cs) == compute_best_hand(CardSet_sort(cs))

\* C12: on 5 or more distinct cards the hand_type and the kickers of
\* best_hand are the same in whatever order the collection holds its cards
\* (constructed from a permuted list, shuffled, or grown by add_cards in
\* another order): they are those of the collection in canonical order, and
\* a read fails in one order exactly if it fails in the canonical order.
C12_OrderIndependent ==
    (ret.op = "best_hand" /\ Len(cards) >= 5)
        => \A canon \in {ReadOfSorted(cards)} :
              /\ ret.exc = canon.exc
              /\ ret.exc = ""
                    => /\ ret.value.hand_type = canon.value.hand_type
                       /\ ret.value.kickers = canon.value.kickers

\* A read returned a hand of a collection of 6 or more cards that are not in
\* canonical order.
C12_ReadOfShuffled ==
    /\ ret.op = "best_hand"
    /\ ret.exc = ""
    /\ Len(cards) >= 6
    /\ cards # CardSet_sort(cards)

-----------------------------------------------------------------------------
(* C13 *)

\* C13: in every state reached by reads of best_hand, deal and add_cards
\* calls, a deal or add_cards call returns without raising (deal returns the
\* cards it removed), also when it follows another deal or add_cards with no
\* read in between; no call changes the card list and then fails.
C13_DealAddNeverRaise ==
    (OnlyDealAddRead /\ ret.op \in {"deal", "add_cards"})
        => /\ ret.exc = ""
           /\ ret.op = "deal" => ret.value = SubSeq(ret.before, 1, ret.arg)

-----------------------------------------------------------------------------
(* C14 *)

\* C14: after any sequence of best_hand reads and deal, add_cards, shuffle,
\* sort and retrieve_cards calls, a read of best_hand that returns a value
\* returns a maximum over the 5-card sub-lists of the cards the collection
\* holds now; a value computed on the remainder of a deal is not returned
\* once retrieve_cards has put the dealt cards back.
C14_ReadIsCurrentMaximum ==
    ReadReturned => IsMaximalHand(ret.value, cards)

-----------------------------------------------------------------------------
(* C15 *)

\* No call changes the list recorded as _original_cardset, and a
\* retrieve_cards call leaves the collection holding the cards it was
\* constructed with.
OriginalKept ==
    /\ original_cardset' = original_cardset
    /\ retrieve_cards => CardSet_sort(cards') = constructed

\* C15: the original card list recorded at construction is never changed by
\* any sequence of deal, add_cards, shuffle, sort and retrieve_cards calls,
\* an add_cards or a shuffle directly after a retrieve_cards included, so
\* every retrieve_cards restores the same list as the first one.
C15_OriginalNeverChanges == [][OriginalKept]_vars

-----------------------------------------------------------------------------
(* C16 *)

\* C16: on a Deck, deal(n) and add_cards invalidate any cached best hand:
\* after either call the Deck holds no cached value, and a read that returns
\* a value returns what the body of best_hand computes on the cards the
\* Deck holds now.
C16_DeckInvalidates ==
    /\ ret.op \in {"deal", "add_cards"} => best_hand_cache = None
    /\ ReadReturned => ret.value = Deck_compute_best_hand(cards).value

-----------------------------------------------------------------------------
(* C17 *)

LadderTypes ==
    {"FOUR_OF_A_KIND", "FULL_HOUSE", "THREE_OF_A_KIND", "TWO_PAIR", "PAIR",
     "HIGH_CARD"}

\* The distinct ranks of cs, by descending multiplicity, ties by descending
\* ace-high rank.
StatedKickers(cs) ==
    LET R == RankSet(cs)
        before(q, r) ==
            \/ Multiplicity(cs, q) > Multiplicity(cs, r)
            \/ (Multiplicity(cs, q) = Multiplicity(cs, r) /\ AceHigh(q) > AceHigh(r))
        nth(p) == CHOOSE r \in R : Cardinality({q \in R : before(q, r)}) = p - 1
    IN  List([p \in 1..Cardinality(R) |-> nth(p)])

\* C17: the kickers of every 5-card hand classified FOUR_OF_A_KIND,
\* FULL_HOUSE, THREE_OF_A_KIND, TWO_PAIR, PAIR or HIGH_CARD are its distinct
\* ranks by descending multiplicity, then by descending ace-high rank, and
\* they are the kickers of the same 5 cards passed in another order.
C17_LadderKickers ==
    (Built(b) /\ b.hand_type \in LadderTypes)
        => /\ b.kickers = StatedKickers(b.cards)
           /\ Built(a)
           /\ a.hand_type = b.hand_type
           /\ a.kickers = b.kickers

\* scored_hand.ScoredHand classified two lists of the same cards, given in
\* orders that leave the cards of equal rank in different orders, as two
\* pairs of Aces and Kings: the two ranks of multiplicity 2 are listed Ace
\* first.
C17_AcesOverKings ==
    /\ Built(a)
    /\ Built(b)
    /\ b.impl = "scored_hand"
    /\ b.hand_type = "TWO_PAIR"
    /\ b.kickers = <<ACE, KING, 12>>
    /\ a.cards # b.cards

=============================================================================
